---- MODULE Spec2Model ----
(***************************************************************************)
(* Meeting-Scheduler: the availability and scheduling engine of            *)
(* services/smartCalendarService.js over the Meeting collection            *)
(* (models/Meeting.js, routes/meetings.js).                                *)
(*                                                                         *)
(* Time is counted in seconds of server-local time from a Sunday 00:00;    *)
(* the server zone is taken to be UTC without daylight saving, so that     *)
(* moment's local fields and MongoDB's $hour agree.  Milliseconds are not  *)
(* modelled: the seconds of an instant stand for its whole sub-minute      *)
(* part.                                                                   *)
(***************************************************************************)
EXTENDS Integers, Sequences, FiniteSets, TLC

VARIABLES meetings, stack, truncated, result, optimal, resolution, scored,
          reply, now, runs, deliveries

vars ==
  <<meetings, stack, truncated, result, optimal, resolution, scored,
    reply, now, runs, deliveries>>

\* the reminder job's variables
reminderVars == <<now, runs, deliveries>>


----------------------------------------------------------------------------
(* Calendar arithmetic (moment.js)                                         *)

SecondsPerMinute == 60
MinutesPerHour == 60
HoursPerDay == 24

Minute == SecondsPerMinute
Hour == MinutesPerHour * Minute
Day == HoursPerDay * Hour

\* moment(t).startOf('day')
StartOfDay(t) == t - (t % Day)

\* moment(t).day(): 0 = Sunday ... 6 = Saturday
DayOfWeek(t) == (t \div Day) % 7

\* moment(t).hour()
HourOf(t) == (t % Day) \div Hour

\* moment(t).minute()
MinuteOf(t) == (t % Hour) \div Minute

\* moment(t).hour(h).minute(m): both setters keep the seconds of t
SetHourMinute(t, h, m) == StartOfDay(t) + h * Hour + m * Minute + (t % Minute)

\* moment(a).diff(moment(b), 'minutes'): the quotient truncated towards zero
DiffMinutes(a, b) ==
  IF a >= b THEN (a - b) \div Minute ELSE -((b - a) \div Minute)

\* Math.ceil(duration / 60) for an integer duration
CeilHours(duration) == -((-duration) \div MinutesPerHour)

IsWeekend(t) == DayOfWeek(t) = 0 \/ DayOfWeek(t) = 6

RECURSIVE SumSeq(_)
SumSeq(s) == IF s = <<>> THEN 0 ELSE Head(s) + SumSeq(Tail(s))

RECURSIVE MaxSeq(_)
MaxSeq(s) ==
  IF Len(s) = 1 THEN s[1]
  ELSE LET m == MaxSeq(Tail(s)) IN IF s[1] >= m THEN s[1] ELSE m

Range(s) == {s[i] : i \in DOMAIN s}

----------------------------------------------------------------------------
(* Bounds and input sets                                                   *)

\* frames of the checkAvailability call chain that are held; deeper chains
\* keep their top MaxDepth frames (see NestedCall)
MaxDepth == 3
\* stored meetings
MaxMeetings == 2

\* the users collection, and one id no user document carries
Users == {"u1", "u2", "u3", "u4"}
Ghost == "ghost"

Monday == 1 * Day
\* half-hour marks of Monday afternoon: T(1) = 14:00, T(3) = 15:00
T(k) == Monday + 13 * Hour + 30 * Minute + k * 30 * Minute

Priorities == {"medium", "high", "urgent"}

\* the authenticated users that create meetings, and whom they invite
Organizers == {"u1"}
Invitations == {{}, {"u2"}}

\* [startTime, endTime) of meetings that are created
MeetingIntervals == {<<T(1), T(3)>>}

\* participants arrays of availability requests
ParticipantLists ==
  {<<>>, <<"u1", "u1">>, <<"u1", "u2">>, <<"u2", Ghost>>}

\* request windows <<startTime, endTime>>: the positions against
\* [T(1), T(3)), two windows with start >= end, one of nine hours, one
\* shorter than a minute
Windows ==
  { <<T(0), T(1)>>, <<T(0), T(2)>>, <<T(2), T(3)>>, <<T(1), T(3)>>,
    <<T(2), T(4)>>, <<T(3), T(4)>>,
    <<T(2), T(2)>>, <<T(3), T(1)>>,
    <<T(0), T(0) + 9 * Hour>>,
    <<T(2), T(2) + 30>> }

\* largest preferences.timeHorizon that is requested, in days
MaxHorizon == 2

\* requested durations, in minutes
Durations == {30, 45, 60, 90, 270}

\* preferences.startDate, or now: Monday 00:00:00, Monday 15:00:30,
\* Friday 10:15:00, Saturday 09:00:00
StartDates ==
  { Monday, Monday + 15 * Hour + 30, 5 * Day + 10 * Hour + 15 * Minute,
    6 * Day + 9 * Hour }

OptimalParticipants == {<<"u1">>, <<"u1", "u2">>}

PreferenceSets ==
  [ workingHours    : { [given |-> FALSE, start |-> 0, end |-> 0],
                        [given |-> TRUE, start |-> 8, end |-> 12] },
    includeWeekends : BOOLEAN,
    preferredDays   : {{}, {6}},
    preferMorning   : BOOLEAN,
    preferAfternoon : {FALSE},
    avoidMondays    : {FALSE},
    avoidFridays    : {FALSE},
    timeHorizon     : 1..MaxHorizon ]

----------------------------------------------------------------------------
(* The Meeting collection                                                  *)

\* reminders || [{ type: 'email', minutesBefore: 15 }, { type:
\* 'notification', minutesBefore: 5 }], sent defaulting to false
DefaultReminders ==
  << [type |-> "email", minutesBefore |-> 15, sent |-> FALSE],
     [type |-> "notification", minutesBefore |-> 5, sent |-> FALSE] >>

\* meetingSchema.pre('save'): the organizer is pushed into participants
WithOrganizer(organizer, invited) == invited \cup {organizer}

NewMeeting(organizer, invited, startTime, endTime, priority) ==
  [ organizer    |-> organizer,
    participants |-> WithOrganizer(organizer, invited),
    startTime    |-> startTime,
    endTime      |-> endTime,
    priority     |-> priority,
    status       |-> "scheduled",
    accepted     |-> {organizer},
    reminders    |-> DefaultReminders ]

----------------------------------------------------------------------------
(* checkAvailability: the aggregation pipeline                             *)

\* TimeClauses with an end that touches the window's start counted as a match
TimeClausesTouching(m, startTime, endTime) ==
  \/ m.startTime <= startTime /\ m.endTime >= startTime
  \/ m.startTime < endTime /\ m.endTime >= endTime
  \/ m.startTime >= startTime /\ m.endTime <= endTime

\* TimeClauses without the clause for a meeting inside the window
TimeClausesNoInside(m, startTime, endTime) ==
  \/ m.startTime <= startTime /\ m.endTime > startTime
  \/ m.startTime < endTime /\ m.endTime >= endTime

\* the three time clauses of the $match stage
TimeClauses(m, startTime, endTime) ==
  \/ m.startTime <= startTime /\ m.endTime > startTime
  \/ m.startTime < endTime /\ m.endTime >= endTime
  \/ m.startTime >= startTime /\ m.endTime <= endTime

\* the $match stage without a condition on status
StatusClauseAny(m) == TRUE

\* status: { $in: ['scheduled', 'in_progress'] }
StatusClause(m) == m.status \in {"scheduled", "in_progress"}

\* The $match stage.  Its object literal carries the key $or twice, so the
\* participant clause (organizer / participants.user $in participants) is
\* replaced by the time clause and filters nothing; excludeMeetingId is
\* null in the three-argument call.
MatchStage(m, participants, startTime, endTime) ==
  TimeClauses(m, startTime, endTime) /\ StatusClause(m)

\* ids of the meetings that pass $match
Matched(ms, participants, startTime, endTime) ==
  {i \in DOMAIN ms : MatchStage(ms[i], participants, startTime, endTime)}

\* $lookup participantInfo, $unwind, $group by participantInfo._id: one
\* group per user document that is a participant of a matched meeting
GroupOf(ms, matched, u) == {i \in matched : u \in ms[i].participants}

\* HighPriorityConflicts counting priority 'urgent' in place of 'high'
HighPriorityConflictsUrgent(ms, group) ==
  Cardinality({i \in group : ms[i].priority = "urgent"})

\* highPriorityConflicts: $sum of $cond [$eq ['$priority', 'high'], 1, 0]
HighPriorityConflicts(ms, group) ==
  Cardinality({i \in group : ms[i].priority = "high"})

\* the availability field of the $project stage
AvailabilityOf(conflictCount, highPriorityConflicts) ==
  IF conflictCount = 0 THEN "available"
  ELSE IF highPriorityConflicts > 0 THEN "busy" ELSE "tentative"

\* the rows of availabilityData, keyed by userId
AvailabilityData(ms, participants, startTime, endTime) ==
  LET matched == Matched(ms, participants, startTime, endTime)
      grouped == {u \in Users : GroupOf(ms, matched, u) # {}}
  IN [u \in grouped |->
        LET g == GroupOf(ms, matched, u)
        IN [ userId                |-> u,
             conflicts             |-> g,
             conflictCount         |-> Cardinality(g),
             highPriorityConflicts |-> HighPriorityConflicts(ms, g),
             availability          |->
               AvailabilityOf(Cardinality(g), HighPriorityConflicts(ms, g)) ]]

\* User.find({ _id: { $in: participants } }): the user documents found
AllParticipants(participants) == {u \in Users : u \in Range(participants)}

\* allParticipants.map(...): the aggregation row, or the default entry
FullAvailability(ms, participants, startTime, endTime) ==
  LET data == AvailabilityData(ms, participants, startTime, endTime)
  IN [u \in AllParticipants(participants) |->
        IF u \in DOMAIN data THEN data[u]
        ELSE [ userId                |-> u,
               conflicts             |-> {},
               conflictCount         |-> 0,
               highPriorityConflicts |-> 0,
               availability          |-> "available" ]]

CountWith(full, status) ==
  Cardinality({u \in DOMAIN full : full[u].availability = status})

\* data.summary
Summary(full) ==
  [ available |-> CountWith(full, "available"),
    busy      |-> CountWith(full, "busy"),
    tentative |-> CountWith(full, "tentative"),
    total     |-> Cardinality(DOMAIN full) ]

\* CanSchedule asking every participant to be available
CanScheduleAllAvailable(full) ==
  \A u \in DOMAIN full : full[u].availability = "available"

\* fullAvailability.every(p => p.availability !== 'busy')
CanSchedule(full) == \A u \in DOMAIN full : full[u].availability # "busy"

\* the data object built at lines 151-166, before suggestions are awaited
AvailabilityReport(ms, participants, startTime, endTime) ==
  LET full == FullAvailability(ms, participants, startTime, endTime)
  IN [ duration     |-> DiffMinutes(endTime, startTime),
       participants |-> full,
       summary      |-> Summary(full),
       canSchedule  |-> CanSchedule(full) ]

NoReport ==
  [ duration     |-> 0,
    participants |-> [u \in {} |-> 0],
    summary      |-> [available |-> 0, busy |-> 0, tentative |-> 0, total |-> 0],
    canSchedule  |-> FALSE ]

----------------------------------------------------------------------------
(* generateTimeSlotSuggestions and its scorer                              *)

\* workingHours of generateTimeSlotSuggestions, and the defaults of
\* generateOptimalTimeSlots
WorkStart == 9
WorkEnd == 17
\* the days generateTimeSlotSuggestions walks
SuggestionDays == 7
\* suggestions.slice(0, 5)
TopSuggestions == 5

\* calculateTimeSlotScore(startTime, availabilityData)
calculateTimeSlotScore(startTime, data) ==
  LET hour == HourOf(startTime)
      dayOfWeek == DayOfWeek(startTime)
      s1 == 100 + (IF hour >= 10 /\ hour <= 11 THEN 20 ELSE 0)
      s2 == s1 + (IF hour >= 14 /\ hour <= 15 THEN 15 ELSE 0)
      s3 == s2 - (IF hour < 9 \/ hour > 16 THEN 30 ELSE 0)
      s4 == s3 + (IF dayOfWeek \in {2, 3, 4} THEN 10 ELSE 0)
      s5 == s4 + (IF dayOfWeek \in {1, 5} THEN 5 ELSE 0)
      s6 == s5 + (IF data.summary.available = data.summary.total THEN 25 ELSE 0)
  IN IF s6 > 0 THEN s6 ELSE 0

\* InsertByScore putting x before the slots of equal score
RECURSIVE InsertBeforeEqual(_, _)
InsertBeforeEqual(sorted, x) ==
  IF sorted = <<>> THEN <<x>>
  ELSE IF Head(sorted).score > x.score
       THEN <<Head(sorted)>> \o InsertBeforeEqual(Tail(sorted), x)
       ELSE <<x>> \o sorted

\* Array.prototype.sort((a, b) => b.score - a.score): stable, so equal
\* scores keep the order in which the slots were pushed
RECURSIVE InsertByScore(_, _)
InsertByScore(sorted, x) ==
  IF sorted = <<>> THEN <<x>>
  ELSE IF Head(sorted).score >= x.score
       THEN <<Head(sorted)>> \o InsertByScore(Tail(sorted), x)
       ELSE <<x>> \o sorted

RECURSIVE SortByScore(_)
SortByScore(s) ==
  IF s = <<>> THEN <<>>
  ELSE InsertByScore(SortByScore(SubSeq(s, 1, Len(s) - 1)), s[Len(s)])

\* Slice keeping the last n elements
SliceLast(s, n) == SubSeq(s, IF Len(s) < n THEN 1 ELSE Len(s) - n + 1, Len(s))

\* Array.prototype.slice(0, n)
Slice(s, n) == SubSeq(s, 1, IF Len(s) < n THEN Len(s) ELSE n)

\* the loop variable hour runs in steps of 0.5: h2 counts half hours
FirstHalfHour(workStart) == 2 * workStart

\* LastHalfHour for the comparison hour < workingHours.end - ...
LastHalfHourExclusive(workEnd, duration) == 2 * (workEnd - CeilHours(duration)) - 1

\* the last value of hour that satisfies
\* hour <= workingHours.end - Math.ceil(duration / 60)
LastHalfHour(workEnd, duration) == 2 * (workEnd - CeilHours(duration))

HourInRange(h2, workEnd, duration) == h2 <= LastHalfHour(workEnd, duration)

\* currentDate.clone().hour(Math.floor(hour)).minute((hour % 1) * 60)
SlotStart(currentDate, h2) ==
  SetHourMinute(currentDate, h2 \div 2, (h2 % 2) * 30)

\* moment(slotStart).add(duration, 'minutes')
SlotEnd(slotStart, duration) == slotStart + duration * Minute

----------------------------------------------------------------------------
(* The call chain checkAvailability -> generateTimeSlotSuggestions ->      *)
(* checkAvailability.  stack holds one frame per call in progress, the     *)
(* innermost last.                                                         *)

Frame(participants, startTime, endTime) ==
  [ participants |-> participants,
    startTime    |-> startTime,
    endTime      |-> endTime,
    pc           |-> "aggregate",
    success      |-> FALSE,
    report       |-> NoReport,
    day          |-> 0,
    h2           |-> FirstHalfHour(WorkStart),
    suggestions  |-> <<>> ]

Top == stack[Len(stack)]

SetTop(f) == [stack EXCEPT ![Len(stack)] = f]

\* startDate of generateTimeSlotSuggestions plus the loop's day
CurrentDate(f) == StartOfDay(f.startTime) + f.day * Day

\* no response has been sent
NoResponse == [status |-> 0, success |-> FALSE, hasData |-> FALSE]

\* res.json({ success: true, message, data: availability.data }): the
\* route does not read availability.success, and data is undefined when
\* the service returned { success: false }
AvailabilityResponse(success) == [status |-> 200, success |-> TRUE, hasData |-> success]

Idle ==
  [ state |-> "idle", success |-> FALSE, report |-> NoReport, suggestions |-> <<>>,
    response |-> NoResponse ]

\* POST /availability-check: the route calls checkAvailability
CheckAvailabilityCall(participants, startTime, endTime) ==
  /\ stack = <<>>
  /\ stack' = <<Frame(participants, startTime, endTime)>>
  /\ truncated' = FALSE
  /\ result' = [Idle EXCEPT !.state = "pending"]
  /\ UNCHANGED <<reply, reminderVars, meetings, optimal, resolution, scored>>

\* lines 25-164: Meeting.aggregate, User.find and the data object up to
\* canSchedule; generateTimeSlotSuggestions is entered next
Aggregate ==
  /\ stack # <<>>
  /\ Top.pc = "aggregate"
  /\ stack' = SetTop([Top EXCEPT
       !.pc = "suggest",
       !.report = AvailabilityReport(meetings, Top.participants,
                                     Top.startTime, Top.endTime)])
  /\ UNCHANGED <<reply, reminderVars, meetings, truncated, result, optimal, resolution, scored>>

\* Meeting.aggregate or User.find rejects: the catch block returns
\* { success: false }
AggregateFails ==
  /\ stack # <<>>
  /\ Top.pc = "aggregate"
  /\ stack' = SetTop([Top EXCEPT !.pc = "done", !.success = FALSE])
  /\ UNCHANGED <<reply, reminderVars, meetings, truncated, result, optimal, resolution, scored>>

\* if (currentDate.day() === 0 || currentDate.day() === 6) continue
SkipWeekend ==
  /\ stack # <<>>
  /\ Top.pc = "suggest"
  /\ Top.day < SuggestionDays
  /\ IsWeekend(CurrentDate(Top))
  /\ stack' = SetTop([Top EXCEPT !.day = @ + 1])
  /\ UNCHANGED <<reply, reminderVars, meetings, truncated, result, optimal, resolution, scored>>

\* the inner loop's condition fails: on to the next day
NextDay ==
  /\ stack # <<>>
  /\ Top.pc = "suggest"
  /\ Top.day < SuggestionDays
  /\ ~IsWeekend(CurrentDate(Top))
  /\ ~HourInRange(Top.h2, WorkEnd, Top.report.duration)
  /\ stack' = SetTop([Top EXCEPT !.day = @ + 1, !.h2 = FirstHalfHour(WorkStart)])
  /\ UNCHANGED <<reply, reminderVars, meetings, truncated, result, optimal, resolution, scored>>

\* line 589: await this.checkAvailability(participants, slotStart, slotEnd).
\* A chain deeper than MaxDepth keeps its innermost MaxDepth frames: the
\* outer frames only wait, and are not read again before the inner return.
NestedCall ==
  /\ stack # <<>>
  /\ Top.pc = "suggest"
  /\ Top.day < SuggestionDays
  /\ ~IsWeekend(CurrentDate(Top))
  /\ HourInRange(Top.h2, WorkEnd, Top.report.duration)
  /\ LET slotStart == SlotStart(CurrentDate(Top), Top.h2)
         slotEnd == SlotEnd(slotStart, Top.report.duration)
         waiting == SetTop([Top EXCEPT !.pc = "await"])
         callee == Frame(Top.participants, slotStart, slotEnd)
     IN IF Len(stack) < MaxDepth
        THEN /\ stack' = Append(waiting, callee)
             /\ UNCHANGED truncated
        ELSE /\ stack' = Append(Tail(waiting), callee)
             /\ truncated' = TRUE
  /\ UNCHANGED <<reply, reminderVars, meetings, result, optimal, resolution, scored>>

\* line 602 and lines 149-167: the loops are over, the call resolves
FinishSuggestions ==
  /\ stack # <<>>
  /\ Top.pc = "suggest"
  /\ Top.day >= SuggestionDays
  /\ stack' = SetTop([Top EXCEPT
       !.pc = "done",
       !.success = TRUE,
       !.suggestions = Slice(SortByScore(@), TopSuggestions)])
  /\ UNCHANGED <<reply, reminderVars, meetings, truncated, result, optimal, resolution, scored>>

\* The value of a resolved call reaches its caller.  The route receives it
\* as the response; generateTimeSlotSuggestions reads
\* availability.data.canSchedule, which throws on { success: false } (data
\* is undefined) into the caller's own catch block, and otherwise pushes
\* the slot and steps hour by 0.5.  Below the held frames every caller of a
\* failed call fails the same way, down to the route.
ReturnResult ==
  /\ stack # <<>>
  /\ Top.pc = "done"
  /\ ~(Len(stack) = 1 /\ truncated /\ Top.success)
  /\ ~(Len(stack) = 1 /\ resolution.state = "checking")
  /\ IF Len(stack) = 1
     THEN /\ result' = [ state       |-> "returned",
                         success     |-> Top.success,
                         report      |-> IF Top.success THEN Top.report ELSE NoReport,
                         suggestions |-> IF Top.success THEN Top.suggestions ELSE <<>>,
                         response    |-> AvailabilityResponse(Top.success) ]
          /\ stack' = <<>>
     ELSE LET caller == stack[Len(stack) - 1]
              rest == SubSeq(stack, 1, Len(stack) - 2)
              slot == [ startTime |-> Top.startTime,
                        endTime   |-> Top.endTime,
                        score     |-> calculateTimeSlotScore(Top.startTime, Top.report) ]
          IN /\ stack' = Append(rest,
                  IF ~Top.success
                  THEN [caller EXCEPT !.pc = "done", !.success = FALSE]
                  ELSE [caller EXCEPT
                          !.pc = "suggest",
                          !.h2 = @ + 1,
                          !.suggestions =
                             IF Top.report.canSchedule THEN Append(@, slot) ELSE @])
             /\ UNCHANGED result
  /\ UNCHANGED <<reply, reminderVars, meetings, truncated, optimal, resolution, scored>>

----------------------------------------------------------------------------
(* routes/meetings.js                                                      *)

\* Meeting.findConflicts(userId, startTime, endTime): the query literal has
\* the key $or twice, the later one (the time clause) replaces the clause
\* on organizer and participants
FindConflicts(ms, userId, startTime, endTime) ==
  {i \in DOMAIN ms :
     /\ ms[i].status \notin {"cancelled", "completed"}
     /\ ms[i].startTime < endTime
     /\ ms[i].endTime > startTime}

\* pre('save') accepting every document
SaveRejectedNever(m, isNew) == FALSE

\* meetingSchema.pre('save'): next(new Error(...))
SaveRejected(m, isNew) ==
  \/ m.endTime <= m.startTime
  \/ isNew /\ m.startTime < now

\* what the last request to routes/meetings.js was answered: ok is false
\* for a 4xx or 5xx answer, conflicts are the documents that
\* sendConflictDetection was given for userId, startTime and endTime are
\* those of the document handed to save()
NoReply ==
  [ok |-> TRUE, userId |-> "none", conflicts |-> {}, startTime |-> 0, endTime |-> 1]

\* the answer to a request of userId that saved document m
SaveReply(m, isNew, userId, conflicts) ==
  [ ok        |-> ~SaveRejected(m, isNew),
    userId    |-> userId,
    conflicts |-> conflicts,
    startTime |-> m.startTime,
    endTime   |-> m.endTime ]

\* POST /api/meetings: findConflicts for the organizer, a notification when
\* there are conflicts, then new Meeting({...}).save().  When the
\* pre('save') hook rejects, the collection is left as it was.
CreateMeeting(organizer, invited, startTime, endTime, priority) ==
  /\ stack = <<>>
  /\ Len(meetings) < MaxMeetings
  /\ LET meeting == NewMeeting(organizer, invited, startTime, endTime, priority)
         conflicts == {meetings[i] :
                         i \in FindConflicts(meetings, organizer, startTime, endTime)}
     IN /\ meetings' = IF SaveRejected(meeting, TRUE) THEN meetings
                       ELSE Append(meetings, meeting)
        /\ reply' = SaveReply(meeting, TRUE, organizer, conflicts)
  /\ UNCHANGED <<reminderVars, stack, truncated, result, optimal, resolution, scored>>

\* PUT /api/meetings/:id by the organizer: the fields of the body are
\* assigned and the document is saved
UpdateMeeting(id, userId, startTime, endTime, priority, status) ==
  /\ stack = <<>>
  /\ id \in DOMAIN meetings
  /\ meetings[id].organizer = userId
  /\ LET meeting == [meetings[id] EXCEPT
                       !.startTime = startTime, !.endTime = endTime,
                       !.priority = priority, !.status = status]
     IN /\ meetings' = IF SaveRejected(meeting, FALSE) THEN meetings
                       ELSE [meetings EXCEPT ![id] = meeting]
        /\ reply' = SaveReply(meeting, FALSE, userId, {})
  /\ UNCHANGED <<reminderVars, stack, truncated, result, optimal, resolution, scored>>

\* POST /api/meetings/:id/respond by a participant
RespondMeeting(id, userId, response) ==
  /\ stack = <<>>
  /\ id \in DOMAIN meetings
  /\ userId \in meetings[id].participants
  /\ LET meeting == [meetings[id] EXCEPT
                       !.accepted = IF response = "accepted" THEN @ \cup {userId}
                                    ELSE @ \ {userId}]
     IN /\ meetings' = IF SaveRejected(meeting, FALSE) THEN meetings
                       ELSE [meetings EXCEPT ![id] = meeting]
        /\ reply' = SaveReply(meeting, FALSE, userId, {})
  /\ UNCHANGED <<reminderVars, stack, truncated, result, optimal, resolution, scored>>

\* DELETE /api/meetings/:id by the organizer: status becomes 'cancelled'
CancelMeeting(id, userId) ==
  /\ stack = <<>>
  /\ id \in DOMAIN meetings
  /\ meetings[id].organizer = userId
  /\ LET meeting == [meetings[id] EXCEPT !.status = "cancelled"]
     IN /\ meetings' = IF SaveRejected(meeting, FALSE) THEN meetings
                       ELSE [meetings EXCEPT ![id] = meeting]
        /\ reply' = SaveReply(meeting, FALSE, userId, {})
  /\ UNCHANGED <<reminderVars, stack, truncated, result, optimal, resolution, scored>>

----------------------------------------------------------------------------
(* findOptimalMeetingTimes and generateOptimalTimeSlots                    *)

\* preferences.timeHorizon || 14
DefaultHorizon == 14
\* suggestions.slice(0, 10)
TopOptimal == 10

\* preferences.workingHours || { start: 9, end: 17 }
WorkingHoursOf(preferences) ==
  IF preferences.workingHours.given
  THEN [start |-> preferences.workingHours.start, end |-> preferences.workingHours.end]
  ELSE [start |-> WorkStart, end |-> WorkEnd]

TimeHorizonOf(preferences) ==
  IF preferences.timeHorizon = 0 THEN DefaultHorizon ELSE preferences.timeHorizon

\* endDate of findOptimalMeetingTimes
HorizonEnd(startDate, preferences) == startDate + TimeHorizonOf(preferences) * Day

\* the $match stage of findOptimalMeetingTimes
OptimalMatch(m, participants, startDate, endDate) ==
  /\ \/ m.organizer \in Range(participants)
     \/ m.participants \cap Range(participants) # {}
  /\ m.startTime >= startDate
  /\ m.startTime <= endDate
  /\ m.status \in {"scheduled", "in_progress"}

RECURSIVE SumOverlap(_, _, _)
SumOverlap(ms, participants, group) ==
  IF group = {} THEN 0
  ELSE LET i == CHOOSE j \in group : TRUE
       IN Cardinality(ms[i].participants \cap Range(participants))
            + SumOverlap(ms, participants, group \ {i})

\* conflictMap.get(`${date}-${hour}`) || 0: the $group of the matched
\* meetings whose startTime falls on that date and in that hour, with
\* conflictScore = occupancy * participantOverlap
ConflictScore(ms, participants, startDate, endDate, slotStart) ==
  LET group == {i \in DOMAIN ms :
                  /\ OptimalMatch(ms[i], participants, startDate, endDate)
                  /\ StartOfDay(ms[i].startTime) = StartOfDay(slotStart)
                  /\ HourOf(ms[i].startTime) = HourOf(slotStart)}
  IN Cardinality(group) * SumOverlap(ms, participants, group)

\* lines 685-707: the score before Math.max(0, score)
AdvancedScoreSum(startTime, conflictScore, preferences) ==
  LET hour == HourOf(startTime)
      dayOfWeek == DayOfWeek(startTime)
      s1 == 100 + (IF hour >= 10 /\ hour <= 11 THEN 25 ELSE 0)
      s2 == s1 + (IF hour >= 14 /\ hour <= 15 THEN 20 ELSE 0)
      s3 == s2 + (IF hour = 9 \/ hour = 16 THEN 10 ELSE 0)
      s4 == s3 - (IF hour < 9 \/ hour > 16 THEN 40 ELSE 0)
      s5 == s4 + (IF dayOfWeek \in {2, 3, 4} THEN 15 ELSE 0)
      s6 == s5 + (IF dayOfWeek \in {1, 5} THEN 8 ELSE 0)
      s7 == s6 - (IF dayOfWeek \in {0, 6} THEN 50 ELSE 0)
      s8 == s7 - conflictScore * 20
      s9 == s8 + (IF preferences.preferMorning /\ hour < 12 THEN 15 ELSE 0)
      s10 == s9 + (IF preferences.preferAfternoon /\ hour >= 12 THEN 15 ELSE 0)
      s11 == s10 - (IF preferences.avoidMondays /\ dayOfWeek = 1 THEN 25 ELSE 0)
  IN s11 - (IF preferences.avoidFridays /\ dayOfWeek = 5 THEN 25 ELSE 0)

\* calculateAdvancedTimeSlotScore with the score also cut off at 100
calculateAdvancedTimeSlotScoreCapped(startTime, conflictScore, preferences) ==
  LET score == AdvancedScoreSum(startTime, conflictScore, preferences)
  IN IF score > 100 THEN 100 ELSE IF score > 0 THEN score ELSE 0

\* calculateAdvancedTimeSlotScore returning the score as it is
calculateAdvancedTimeSlotScoreUnclamped(startTime, conflictScore, preferences) ==
  AdvancedScoreSum(startTime, conflictScore, preferences)

\* calculateAdvancedTimeSlotScore(startTime, conflictScore, preferences)
calculateAdvancedTimeSlotScore(startTime, conflictScore, preferences) ==
  LET score == AdvancedScoreSum(startTime, conflictScore, preferences)
  IN IF score > 0 THEN score ELSE 0

\* lines 654-657: the day is skipped
SkipDay(currentDate, preferences) ==
  ~preferences.includeWeekends /\ IsWeekend(currentDate)

\* lines 660-675: the slot pushed for the loop value h2 / 2
OptimalSlot(ms, participants, duration, startDate, endDate, preferences, currentDate, h2) ==
  LET slotStart == SlotStart(currentDate, h2)
      conflictScore == ConflictScore(ms, participants, startDate, endDate, slotStart)
  IN [ startTime     |-> slotStart,
       endTime       |-> SlotEnd(slotStart, duration),
       score         |-> calculateAdvancedTimeSlotScore(slotStart, conflictScore, preferences),
       conflictLevel |-> IF conflictScore > 0 THEN "low" ELSE "none" ]

\* the inner for loop of one day, in the order of the pushes
DaySlots(ms, participants, duration, startDate, endDate, preferences, currentDate) ==
  LET wh == WorkingHoursOf(preferences)
      first == FirstHalfHour(wh.start)
      last == LastHalfHour(wh.end, duration)
  IN [k \in 1..(last - first + 1) |->
        OptimalSlot(ms, participants, duration, startDate, endDate, preferences,
                    currentDate, first + k - 1)]

\* the while loop from currentDate on
RECURSIVE SlotsFrom(_, _, _, _, _, _, _)
SlotsFrom(ms, participants, duration, startDate, endDate, preferences, currentDate) ==
  IF ~(currentDate < endDate) THEN <<>>
  ELSE IF SkipDay(currentDate, preferences)
  THEN SlotsFrom(ms, participants, duration, startDate, endDate, preferences,
                 currentDate + Day)
  ELSE DaySlots(ms, participants, duration, startDate, endDate, preferences, currentDate)
         \o SlotsFrom(ms, participants, duration, startDate, endDate, preferences,
                      currentDate + Day)

\* generateOptimalTimeSlots(participants, duration, startDate, endDate,
\* conflictData, preferences), conflictData being read from ms
generateOptimalTimeSlots(ms, participants, duration, startDate, endDate, preferences) ==
  SortByScore(SlotsFrom(ms, participants, duration, startDate, endDate,
                        preferences, startDate))

\* Math.round((avgScore / 100) * (maxScore / 100) * 100)
calculateConfidenceScore(suggestions) ==
  IF suggestions = <<>> THEN 0
  ELSE LET scores == [k \in DOMAIN suggestions |-> suggestions[k].score]
           n == Len(scores)
       IN (2 * SumSeq(scores) * MaxSeq(scores) + 100 * n) \div (200 * n)

NoOptimal ==
  [ state |-> "idle", participants |-> <<>>, duration |-> 0, startDate |-> 0,
    endDate |-> 0,
    preferences |-> [ workingHours |-> [given |-> FALSE, start |-> 0, end |-> 0],
                      includeWeekends |-> FALSE, preferredDays |-> {},
                      preferMorning |-> FALSE,
                      preferAfternoon |-> FALSE, avoidMondays |-> FALSE,
                      avoidFridays |-> FALSE, timeHorizon |-> 0 ],
    slots |-> <<>>, suggestions |-> <<>>, confidence |-> 0 ]

\* POST /find-optimal-times: findOptimalMeetingTimes(participants,
\* duration, preferences), startDate being preferences.startDate or now
FindOptimalMeetingTimes(participants, duration, startDate, preferences) ==
  /\ optimal.state = "idle"
  /\ LET endDate == HorizonEnd(startDate, preferences)
         slots == generateOptimalTimeSlots(meetings, participants, duration,
                                           startDate, endDate, preferences)
     IN optimal' = [ state        |-> "returned",
                     participants |-> participants,
                     duration     |-> duration,
                     startDate    |-> startDate,
                     endDate      |-> endDate,
                     preferences  |-> preferences,
                     slots        |-> slots,
                     suggestions  |-> Slice(slots, TopOptimal),
                     confidence   |-> calculateConfidenceScore(slots) ]
  /\ UNCHANGED <<reply, reminderVars, meetings, stack, truncated, result, resolution, scored>>

\* res.json(...): the response is sent and the request is over
OptimalResponse ==
  /\ optimal.state = "returned"
  /\ optimal' = NoOptimal
  /\ UNCHANGED <<reply, reminderVars, meetings, stack, truncated, result, resolution, scored>>

----------------------------------------------------------------------------
(* resolveSchedulingConflicts and its strategies                           *)

\* participants of a POST /resolve-conflicts body
ResolveParticipantLists ==
  { <<"u1", "u2">>, <<"u1", "u2", "u3", "u4">>, <<"u1", "u2", "u3", Ghost>> }

\* startTime and endTime of the body: nine hours from Monday 13:30, and
\* Monday 14:00 to 15:00
ResolveWindows == { <<T(0), T(0) + 9 * Hour>>, <<T(1), T(3)>> }

\* meetingData.duration: the body may carry it or not
RequestDurations ==
  { [given |-> FALSE, value |-> 0], [given |-> TRUE, value |-> 90] }

MeetingData(participants, startTime, endTime, duration) ==
  [ participants |-> participants,
    startTime    |-> startTime,
    endTime      |-> endTime,
    duration     |-> duration ]

\* the $match stage of conflictAnalysis: meetings of the participants that
\* start within seven days from meetingData.startTime
AnalysisMatch(m, meetingData) ==
  /\ \/ m.organizer \in Range(meetingData.participants)
     \/ m.participants \cap Range(meetingData.participants) # {}
  /\ m.startTime >= meetingData.startTime
  /\ m.startTime <= meetingData.startTime + 7 * Day
  /\ m.status \in {"scheduled", "in_progress"}

\* the $cond of the $project stage; the Meeting schema has no field type,
\* so that $in: ['$type', [...]] is never true
Flexibility(m) == IF m.priority = "low" THEN "medium" ELSE "low"

\* conflictAnalysis.filter(c => c.flexibility === 'high')
FlexibleConflicts(ms, meetingData) ==
  {i \in DOMAIN ms : AnalysisMatch(ms[i], meetingData) /\ Flexibility(ms[i]) = "high"}

\* the four strategy objects; probability is counted in tenths
Reschedule ==
  [type |-> "reschedule", effort |-> "low", impact |-> "high", probability |-> 9]
ReduceParticipants ==
  [type |-> "reduce_participants", effort |-> "medium", impact |-> "medium",
   probability |-> 7]
SplitMeeting ==
  [type |-> "split_meeting", effort |-> "high", impact |-> "medium", probability |-> 6]
OverrideConflicts ==
  [type |-> "override_conflicts", effort |-> "medium", impact |-> "high",
   probability |-> 8]

\* conflictData.participants.length > 3
ManyParticipants(conflictData) == Cardinality(DOMAIN conflictData.participants) > 3

\* generateResolutionStrategies(conflictData, conflictAnalysis, meetingData),
\* conflictAnalysis being read from ms
generateResolutionStrategies(ms, conflictData, meetingData) ==
  <<Reschedule>>
    \o (IF ManyParticipants(conflictData) THEN <<ReduceParticipants>> ELSE <<>>)
    \o (IF meetingData.duration.given /\ meetingData.duration.value > 60
        THEN <<SplitMeeting>> ELSE <<>>)
    \o (IF FlexibleConflicts(ms, meetingData) # {} THEN <<OverrideConflicts>> ELSE <<>>)

\* (impact === 'high' ? 3 : impact === 'medium' ? 2 : 1) * probability
StrategyWeight(strategy) ==
  (IF strategy.impact = "high" THEN 3 ELSE IF strategy.impact = "medium" THEN 2 ELSE 1)
    * strategy.probability

\* strategies.sort(...) of generateSmartRecommendations: stable, in place,
\* on the array that is returned as resolutionStrategies
RECURSIVE InsertByWeight(_, _)
InsertByWeight(sorted, x) ==
  IF sorted = <<>> THEN <<x>>
  ELSE IF StrategyWeight(Head(sorted)) >= StrategyWeight(x)
       THEN <<Head(sorted)>> \o InsertByWeight(Tail(sorted), x)
       ELSE <<x>> \o sorted

\* SortByWeight leaving the strategies in the order of their generation
KeepOrder(s) == s

RECURSIVE SortByWeight(_)
SortByWeight(s) ==
  IF s = <<>> THEN <<>>
  ELSE InsertByWeight(SortByWeight(SubSeq(s, 1, Len(s) - 1)), s[Len(s)])

\* the recommendations built from the sorted strategies: the first as
\* 'primary', strategies.slice(1, 3) as 'alternative' with rank 2 and 3
Recommendations(sorted) ==
  (IF sorted = <<>> THEN <<>>
   ELSE <<[priority |-> "primary", strategy |-> sorted[1].type]>>)
    \o [k \in 1..((IF Len(sorted) < 3 THEN Len(sorted) ELSE 3) - 1) |->
          [priority |-> "alternative", rank |-> k + 1, strategy |-> sorted[k + 1].type]]

NoResolution ==
  [ state                |-> "idle",
    meetingData          |-> MeetingData(<<>>, 0, 0, [given |-> FALSE, value |-> 0]),
    success              |-> FALSE,
    hasConflicts         |-> FALSE,
    conflicts            |-> NoReport,
    resolutionStrategies |-> <<>>,
    recommendations      |-> <<>> ]

\* POST /resolve-conflicts: resolveSchedulingConflicts(meetingData) awaits
\* checkAvailability(participants, startTime, endTime)
ResolveSchedulingConflictsCall(participants, startTime, endTime, duration) ==
  /\ stack = <<>>
  /\ resolution.state = "idle"
  /\ stack' = <<Frame(participants, startTime, endTime)>>
  /\ truncated' = FALSE
  /\ resolution' = [NoResolution EXCEPT
       !.state = "checking",
       !.meetingData = MeetingData(participants, startTime, endTime, duration)]
  /\ UNCHANGED <<reply, reminderVars, meetings, result, optimal, scored>>

\* lines 289-354: the call has resolved.  conflicts.data.canSchedule throws
\* on { success: false } into the catch block; a schedulable request is
\* answered without strategies; otherwise conflictAnalysis is read and the
\* strategies are generated.
ResolveStrategies ==
  /\ resolution.state = "checking"
  /\ Len(stack) = 1
  /\ Top.pc = "done"
  /\ ~(truncated /\ Top.success)
  /\ stack' = <<>>
  /\ resolution' =
       IF ~Top.success
       THEN [resolution EXCEPT !.state = "returned", !.success = FALSE]
       ELSE IF Top.report.canSchedule
       THEN [resolution EXCEPT !.state = "returned", !.success = TRUE,
                               !.hasConflicts = FALSE]
       ELSE [resolution EXCEPT
               !.state = "strategies",
               !.success = TRUE,
               !.hasConflicts = TRUE,
               !.conflicts = Top.report,
               !.resolutionStrategies =
                  generateResolutionStrategies(meetings, Top.report,
                                               resolution.meetingData)]
  /\ UNCHANGED <<reply, reminderVars, meetings, truncated, result, optimal, scored>>

\* lines 356-363 and generateSmartRecommendations: strategies.sort(...)
\* orders the array that resolutionStrategies refers to, the
\* recommendations are read off it, and the result object is returned
GenerateSmartRecommendations ==
  /\ resolution.state = "strategies"
  /\ LET sorted == SortByWeight(resolution.resolutionStrategies)
     IN resolution' = [resolution EXCEPT
          !.state = "returned",
          !.resolutionStrategies = sorted,
          !.recommendations = Recommendations(sorted)]
  /\ UNCHANGED <<reply, reminderVars, meetings, stack, truncated, result, optimal, scored>>

\* res.json(...) or res.status(500): the request is over
ResolveResponse ==
  /\ resolution.state = "returned"
  /\ resolution' = NoResolution
  /\ UNCHANGED <<reply, reminderVars, meetings, stack, truncated, result, optimal, scored>>

----------------------------------------------------------------------------
(* The slot scorers, called on their own                                   *)

\* largest conflict value a scorer is called with
MaxConflicts == 4

\* slot starts: every day of the week at half past every hour from 7 to 18
ScoreTimes == {d * Day + h * Hour + 30 * Minute : d \in 0..6, h \in 7..18}

ConflictValues == 0..MaxConflicts

\* the preference flags calculateAdvancedTimeSlotScore reads
ScorePreferences ==
  [ preferMorning   : BOOLEAN,
    preferAfternoon : BOOLEAN,
    avoidMondays    : BOOLEAN,
    avoidFridays    : BOOLEAN ]

\* the preference flags the insights scorer reads
InsightsPreferences == [avoidEarlyMorning : BOOLEAN, avoidLateMeeting : BOOLEAN]

\* summary.available and summary.total of an availability report
SummaryCounts == {<<0, 1>>, <<1, 1>>, <<1, 2>>, <<2, 2>>}

\* AIInsightsService.calculateTimeSlotScore(hour, dayOfWeek, conflicts,
\* preferences)
calculateTimeSlotScoreInsights(hour, dayOfWeek, conflicts, preferences) ==
  LET s1 == 100 + (IF hour >= 10 /\ hour <= 11 THEN 20 ELSE 0)
      s2 == s1 + (IF hour >= 14 /\ hour <= 15 THEN 15 ELSE 0)
      s3 == s2 - (IF hour < 9 \/ hour > 16 THEN 30 ELSE 0)
      s4 == s3 + (IF dayOfWeek \in {2, 3, 4} THEN 10 ELSE 0)
      s5 == s4 + (IF dayOfWeek \in {1, 5} THEN 5 ELSE 0)
      s6 == s5 - (IF dayOfWeek \in {0, 6} THEN 50 ELSE 0)
      s7 == s6 - conflicts * 25
      s8 == s7 - (IF preferences.avoidEarlyMorning /\ hour < 10 THEN 20 ELSE 0)
      s9 == s8 - (IF preferences.avoidLateMeeting /\ hour > 15 THEN 20 ELSE 0)
  IN IF s9 > 0 THEN s9 ELSE 0

NoPreferences ==
  [ preferMorning |-> FALSE, preferAfternoon |-> FALSE, avoidMondays |-> FALSE,
    avoidFridays |-> FALSE, avoidEarlyMorning |-> FALSE, avoidLateMeeting |-> FALSE ]

\* no scorer has been called
NoScore ==
  [ fn |-> "none", state |-> "returned", startTime |-> 0, conflicts |-> 0,
    available |-> 0, total |-> 0, preferences |-> NoPreferences, value |-> 0 ]

\* the calls of the three scorers, with their arguments
ScoreCalls ==
  { [NoScore EXCEPT !.fn = "advanced", !.state = "called", !.startTime = t,
                    !.conflicts = c,
                    !.preferences = [NoPreferences EXCEPT
                       !.preferMorning = pref.preferMorning,
                       !.preferAfternoon = pref.preferAfternoon,
                       !.avoidMondays = pref.avoidMondays,
                       !.avoidFridays = pref.avoidFridays]] :
      t \in ScoreTimes, c \in ConflictValues, pref \in ScorePreferences }
  \cup
  { [NoScore EXCEPT !.fn = "suggestion", !.state = "called", !.startTime = t,
                    !.available = n[1], !.total = n[2]] :
      t \in ScoreTimes, n \in SummaryCounts }
  \cup
  { [NoScore EXCEPT !.fn = "insights", !.state = "called", !.startTime = t,
                    !.conflicts = c,
                    !.preferences = [NoPreferences EXCEPT
                       !.avoidEarlyMorning = pref.avoidEarlyMorning,
                       !.avoidLateMeeting = pref.avoidLateMeeting]] :
      t \in ScoreTimes, c \in ConflictValues, pref \in InsightsPreferences }

\* this.calculateAdvancedTimeSlotScore(slotStart, conflictScore, preferences)
ScoreAdvanced ==
  /\ scored.fn = "advanced"
  /\ scored.state = "called"
  /\ scored' = [scored EXCEPT
       !.state = "returned",
       !.value = calculateAdvancedTimeSlotScore(scored.startTime, scored.conflicts,
                                                scored.preferences)]
  /\ UNCHANGED <<reply, reminderVars, meetings, stack, truncated, result, optimal, resolution>>

\* this.calculateTimeSlotScore(slotStart, availability.data)
ScoreSuggestion ==
  /\ scored.fn = "suggestion"
  /\ scored.state = "called"
  /\ scored' = [scored EXCEPT
       !.state = "returned",
       !.value = calculateTimeSlotScore(scored.startTime,
          [summary |-> [available |-> scored.available, total |-> scored.total]])]
  /\ UNCHANGED <<reply, reminderVars, meetings, stack, truncated, result, optimal, resolution>>

\* this.calculateTimeSlotScore(hour, dayOfWeek, conflictCount, preferences)
\* of the insights service
ScoreInsights ==
  /\ scored.fn = "insights"
  /\ scored.state = "called"
  /\ scored' = [scored EXCEPT
       !.state = "returned",
       !.value = calculateTimeSlotScoreInsights(HourOf(scored.startTime),
          DayOfWeek(scored.startTime), scored.conflicts, scored.preferences)]
  /\ UNCHANGED <<reply, reminderVars, meetings, stack, truncated, result, optimal, resolution>>

----------------------------------------------------------------------------
(* services/reminderService.js under the cron job of app-production.js     *)

\* runs of checkAndSendReminders that may be in progress at once
MaxRuns == 2
\* the reminder entries a meeting carries at most
MaxReminders == 2
\* the reminder job is followed from Monday 12:20 for MaxTicks minutes
ReminderEpoch == Monday + 12 * Hour + 20 * Minute
MaxTicks == 102

\* user.preferences?.reminderTime || 15
DefaultReminderTime == 15

\* futureTime - now, in minutes
ReminderWindow == 60

Reminder(type, minutesBefore) ==
  [type |-> type, minutesBefore |-> minutesBefore, sent |-> FALSE]

\* collections with one scheduled meeting on Monday 14:00
ReminderStores ==
  { <<[NewMeeting("u1", {"u2"}, T(1), T(3), "medium") EXCEPT !.reminders = rs]>> :
      rs \in { DefaultReminders,
               <<Reminder("email", 90), Reminder("email", 15)>>,
               <<Reminder("email", 60)>> } }

\* Math.round((meetingStart - now) / (1000 * 60))
MinutesUntil(meetingStart, time) ==
  LET d == meetingStart - time
  IN IF d >= 0 THEN (2 * d + Minute) \div (2 * Minute)
     ELSE -((2 * (-d) + Minute - 1) \div (2 * Minute))

\* the query of checkAndSendReminders
NeedsReminder(m, time) ==
  /\ m.startTime >= time
  /\ m.startTime <= time + ReminderWindow * Minute
  /\ m.status = "scheduled"
  /\ \E i \in DOMAIN m.reminders : ~m.reminders[i].sent

RECURSIVE MatchedFrom(_, _, _)
MatchedFrom(ms, time, id) ==
  IF id > Len(ms) THEN <<>>
  ELSE (IF NeedsReminder(ms[id], time) THEN <<id>> ELSE <<>>)
         \o MatchedFrom(ms, time, id + 1)

IdleRun ==
  [pc |-> "idle", start |-> 0, docs |-> <<>>, ids |-> <<>>, i |-> 1, until |-> 0]

NoRuns == [r \in 1..MaxRuns |-> IdleRun]

NoDeliveries == [e \in (1..MaxMeetings) \X (0..MaxReminders) |-> 0]

\* processMeetingReminders is entered for the first of ids, or the run ends
EnterMeeting(run, time) ==
  IF run.ids = <<>> THEN [run EXCEPT !.pc = "done"]
  ELSE [run EXCEPT
          !.pc = "check",
          !.i = 1,
          !.until = MinutesUntil(run.docs[Head(run.ids)].startTime, time)]

\* the run that is free and has the least index
FreeRun(r) ==
  /\ runs[r].pc \in {"idle", "done"}
  /\ \A q \in 1..(r - 1) : runs[q].pc \notin {"idle", "done"}

\* cron.schedule('* * * * *'): the next minute begins and
\* checkAndSendReminders loads the meetings that start within the hour
Tick(r) ==
  /\ now < ReminderEpoch + MaxTicks * Minute
  /\ FreeRun(r)
  /\ now' = now + Minute
  /\ runs' = [runs EXCEPT ![r] =
       EnterMeeting([IdleRun EXCEPT
                       !.start = now',
                       !.docs = meetings,
                       !.ids = MatchedFrom(meetings, now', 1)], now')]
  /\ UNCHANGED <<meetings, stack, truncated, result, optimal, resolution, scored,
                 reply, deliveries>>

\* lines 47-52: the entry is due and not marked in the loaded document;
\* sendReminder reaches the participants who accepted, and the entry is
\* marked in the loaded document
SendReminder(r) ==
  /\ runs[r].pc = "check"
  /\ LET m == Head(runs[r].ids)
         doc == runs[r].docs[m]
         i == runs[r].i
     IN /\ i <= Len(doc.reminders)
        /\ ~doc.reminders[i].sent
        /\ runs[r].until <= doc.reminders[i].minutesBefore
        /\ deliveries' =
             IF doc.accepted = {} THEN deliveries
             ELSE [deliveries EXCEPT ![<<m, i>>] = @ + 1]
        /\ runs' = [runs EXCEPT ![r].pc = "save",
                                ![r].docs[m].reminders[i].sent = TRUE]
  /\ UNCHANGED <<meetings, stack, truncated, result, optimal, resolution, scored,
                 reply, now>>

\* line 56: meeting.save() writes the modified path reminders.i.sent
SaveReminder(r) ==
  /\ runs[r].pc = "save"
  /\ LET m == Head(runs[r].ids)
         i == runs[r].i
     IN /\ meetings' = [meetings EXCEPT ![m].reminders[i].sent = TRUE]
        /\ runs' = [runs EXCEPT ![r].pc = "check", ![r].i = i + 1]
  /\ UNCHANGED <<stack, truncated, result, optimal, resolution, scored,
                 reply, now, deliveries>>

\* line 47: the entry is marked sent or is not due yet
NextReminder(r) ==
  /\ runs[r].pc = "check"
  /\ LET doc == runs[r].docs[Head(runs[r].ids)]
         i == runs[r].i
     IN /\ i <= Len(doc.reminders)
        /\ doc.reminders[i].sent \/ runs[r].until > doc.reminders[i].minutesBefore
        /\ runs' = [runs EXCEPT ![r].i = i + 1]
  /\ UNCHANGED <<meetings, stack, truncated, result, optimal, resolution, scored,
                 reply, now, deliveries>>

\* sendDefaultReminders, recorded as entry 0 of the meeting, and the next
\* meeting of the run
SendDefaultReminders(r) ==
  /\ runs[r].pc = "check"
  /\ LET m == Head(runs[r].ids)
         doc == runs[r].docs[m]
         due == /\ runs[r].until <= DefaultReminderTime
                /\ runs[r].until > DefaultReminderTime - 1
                /\ ~\E k \in DOMAIN doc.reminders :
                      /\ doc.reminders[k].minutesBefore = DefaultReminderTime
                      /\ doc.reminders[k].sent
     IN /\ runs[r].i > Len(doc.reminders)
        /\ deliveries' =
             IF due /\ doc.accepted # {}
             THEN [deliveries EXCEPT ![<<m, 0>>] = @ + 1]
             ELSE deliveries
        /\ runs' = [runs EXCEPT ![r] =
             EnterMeeting([runs[r] EXCEPT !.ids = Tail(@)], now)]
  /\ UNCHANGED <<meetings, stack, truncated, result, optimal, resolution, scored,
                 reply, now>>

----------------------------------------------------------------------------

Init ==
  /\ meetings = <<>>
  /\ stack = <<>>
  /\ truncated = FALSE
  /\ reply = NoReply
  /\ now = 0
  /\ runs = NoRuns
  /\ deliveries = NoDeliveries
  /\ result = Idle
  /\ optimal = NoOptimal
  /\ resolution = NoResolution
  /\ scored = NoScore

Next ==
  \/ \E p \in ParticipantLists, w \in Windows : CheckAvailabilityCall(p, w[1], w[2])
  \/ Aggregate
  \/ AggregateFails
  \/ SkipWeekend
  \/ NextDay
  \/ NestedCall
  \/ FinishSuggestions
  \/ ReturnResult
  \/ \E o \in Organizers, inv \in Invitations, iv \in MeetingIntervals, pr \in Priorities :
       CreateMeeting(o, inv, iv[1], iv[2], pr)
  \/ \E id \in 1..MaxMeetings, u \in Users : CancelMeeting(id, u)

Spec == Init /\ [][Next]_vars

\* the availability engine alone, its continuations always run
Step ==
  \/ Aggregate
  \/ SkipWeekend
  \/ NextDay
  \/ NestedCall
  \/ FinishSuggestions
  \/ ReturnResult

SpecFair == Init /\ [][Next]_vars /\ WF_vars(Step)

\* collections against which optimal times are searched
SlotStores ==
  { <<>>,
    <<NewMeeting("u1", {"u2"}, T(1), T(3), "high")>>,
    <<NewMeeting("u1", {}, Monday + 15 * Hour, Monday + 16 * Hour, "medium"),
      NewMeeting("u1", {"u2"}, Monday + 15 * Hour + 30 * Minute,
                 Monday + 16 * Hour, "medium")>> }

InitSlots ==
  /\ meetings \in SlotStores
  /\ stack = <<>>
  /\ truncated = FALSE
  /\ reply = NoReply
  /\ now = 0
  /\ runs = NoRuns
  /\ deliveries = NoDeliveries
  /\ result = Idle
  /\ optimal = NoOptimal
  /\ resolution = NoResolution
  /\ scored = NoScore

NextSlots ==
  \/ \E p \in OptimalParticipants, d \in Durations, sd \in StartDates,
        pref \in PreferenceSets : FindOptimalMeetingTimes(p, d, sd, pref)
  \/ OptimalResponse

SpecSlots == InitSlots /\ [][NextSlots]_vars

\* conflict resolution alone, over stored collections
ResolveStores ==
  { <<>>,
    <<NewMeeting("u1", {"u2"}, T(1), T(3), "high")>>,
    <<NewMeeting("u1", {"u2"}, T(1), T(3), "medium")>>,
    <<NewMeeting("u3", {"u4"}, T(1), T(3), "urgent"),
      NewMeeting("u2", {}, T(2), T(4), "high")>>,
    <<NewMeeting("u1", {}, T(1), T(3), "low"),
      NewMeeting("u2", {}, T(2), T(4), "high")>> }

InitResolve ==
  /\ meetings \in ResolveStores
  /\ stack = <<>>
  /\ truncated = FALSE
  /\ reply = NoReply
  /\ now = 0
  /\ runs = NoRuns
  /\ deliveries = NoDeliveries
  /\ result = Idle
  /\ optimal = NoOptimal
  /\ resolution = NoResolution
  /\ scored = NoScore

NextResolve ==
  \/ \E p \in ResolveParticipantLists, w \in ResolveWindows, d \in RequestDurations :
       ResolveSchedulingConflictsCall(p, w[1], w[2], d)
  \/ Aggregate
  \/ AggregateFails
  \/ SkipWeekend
  \/ NextDay
  \/ NestedCall
  \/ FinishSuggestions
  \/ ReturnResult
  \/ ResolveStrategies
  \/ GenerateSmartRecommendations
  \/ ResolveResponse

SpecResolve == InitResolve /\ [][NextResolve]_vars

\* the scorers alone
InitScore ==
  /\ meetings = <<>>
  /\ stack = <<>>
  /\ truncated = FALSE
  /\ reply = NoReply
  /\ now = 0
  /\ runs = NoRuns
  /\ deliveries = NoDeliveries
  /\ result = Idle
  /\ optimal = NoOptimal
  /\ resolution = NoResolution
  /\ scored \in ScoreCalls

NextScore ==
  \/ ScoreAdvanced
  \/ ScoreSuggestion
  \/ ScoreInsights

SpecScore == InitScore /\ [][NextScore]_vars

\* generateSmartRecommendations(strategies, meetingData) alone, on every
\* list of distinct strategies
StrategyLists ==
  LET all == {Reschedule, ReduceParticipants, SplitMeeting, OverrideConflicts}
  IN {l \in UNION {[1..n -> all] : n \in 0..4} :
        \A i, j \in DOMAIN l : i # j => l[i] # l[j]}

InitRecommend ==
  /\ meetings = <<>>
  /\ stack = <<>>
  /\ truncated = FALSE
  /\ reply = NoReply
  /\ now = 0
  /\ runs = NoRuns
  /\ deliveries = NoDeliveries
  /\ result = Idle
  /\ optimal = NoOptimal
  /\ scored = NoScore
  /\ resolution \in
       {[NoResolution EXCEPT !.state = "strategies", !.success = TRUE,
                             !.hasConflicts = TRUE, !.resolutionStrategies = l,
                             !.meetingData = MeetingData(p, w[1], w[2], d)] :
          l \in StrategyLists, p \in ResolveParticipantLists,
          w \in ResolveWindows, d \in RequestDurations}

NextRecommend ==
  \/ GenerateSmartRecommendations
  \/ ResolveResponse

SpecRecommend == InitRecommend /\ [][NextRecommend]_vars

\* the reminder job alone
InitReminders ==
  /\ meetings \in ReminderStores
  /\ stack = <<>>
  /\ truncated = FALSE
  /\ reply = NoReply
  /\ now = ReminderEpoch
  /\ runs = NoRuns
  /\ deliveries = NoDeliveries
  /\ result = Idle
  /\ optimal = NoOptimal
  /\ resolution = NoResolution
  /\ scored = NoScore

NextReminders ==
  \/ \E r \in 1..MaxRuns : Tick(r)
  \/ \E r \in 1..MaxRuns : SendReminder(r)
  \/ \E r \in 1..MaxRuns : SaveReminder(r)
  \/ \E r \in 1..MaxRuns : NextReminder(r)
  \/ \E r \in 1..MaxRuns : SendDefaultReminders(r)

SpecReminders == InitReminders /\ [][NextReminders]_vars

\* the meeting routes with availability checks of one request
StoreEpoch == T(0)
StoreOrganizers == {"u1", "u3"}
\* startTime and endTime of the bodies of POST and PUT: a valid interval,
\* one that ends before it starts, an empty one and one that began before
\* StoreEpoch
CreateIntervals == {<<T(1), T(3)>>, <<T(3), T(1)>>, <<T(0) - Hour, T(1)>>}
UpdateIntervals == {<<T(1), T(3)>>, <<T(2), T(2)>>}
UpdateStatuses == {"scheduled", "in-progress"}
Responses == {"accepted", "declined"}
\* the request of POST /availability-check
StoreRequest ==
  [participants |-> <<"u1", "u2">>, startTime |-> T(0), endTime |-> T(0) + 9 * Hour]

InitStore ==
  /\ meetings = <<>>
  /\ stack = <<>>
  /\ truncated = FALSE
  /\ reply = NoReply
  /\ now = StoreEpoch
  /\ runs = NoRuns
  /\ deliveries = NoDeliveries
  /\ result = Idle
  /\ optimal = NoOptimal
  /\ resolution = NoResolution
  /\ scored = NoScore

NextStore ==
  \/ CheckAvailabilityCall(StoreRequest.participants, StoreRequest.startTime,
                           StoreRequest.endTime)
  \/ Aggregate
  \/ AggregateFails
  \/ SkipWeekend
  \/ NextDay
  \/ FinishSuggestions
  \/ ReturnResult
  \/ \E o \in StoreOrganizers, iv \in CreateIntervals :
       CreateMeeting(o, {"u2"}, iv[1], iv[2], "high")
  \/ \E id \in 1..MaxMeetings, u \in StoreOrganizers, iv \in UpdateIntervals,
        st \in UpdateStatuses :
       UpdateMeeting(id, u, iv[1], iv[2], "high", st)
  \/ \E id \in 1..MaxMeetings, r \in Responses : RespondMeeting(id, "u2", r)
  \/ \E id \in 1..MaxMeetings, u \in StoreOrganizers : CancelMeeting(id, u)

SpecStore == InitStore /\ [][NextStore]_vars

----------------------------------------------------------------------------
(* Properties                                                              *)

\* the frames whose availability data (lines 25-164) has been computed
Computed(f) == f.pc \in {"suggest", "await"} \/ (f.pc = "done" /\ f.success)

ValidWindow(f) == f.startTime < f.endTime

\* the stored meetings of user u that the status filter admits
ActiveMeetingsOf(u) ==
  {i \in DOMAIN meetings :
     /\ meetings[i].status \in {"scheduled", "in_progress"}
     /\ u \in meetings[i].participants}

\* half-open overlap of meeting i with the window of frame f
Overlaps(i, f) ==
  meetings[i].startTime < f.endTime /\ f.startTime < meetings[i].endTime

\* meeting i is among the conflicts frame f reports for user u
Listed(f, u, i) ==
  u \in DOMAIN f.report.participants /\ i \in f.report.participants[u].conflicts

\* C1: every call of checkAvailability terminates: whenever a call chain is
\* in progress, it is eventually over and the route has its result.
CallTerminates == (stack # <<>>) ~> (stack = <<>>)

\* C2: for a window with start < end, an active meeting of a requested
\* participant is listed among that participant's conflicts exactly when
\* the two half-open intervals overlap; touching at a boundary is no conflict.
ConflictIffOverlap ==
  \A k \in DOMAIN stack :
    LET f == stack[k] IN
      (Computed(f) /\ ValidWindow(f)) =>
        \A u \in Range(f.participants) : \A i \in ActiveMeetingsOf(u) :
          Listed(f, u, i) <=> Overlaps(i, f)

\* a request whose window only touches a stored active meeting of the
\* requested u1, who is reported without that conflict
BoundaryTouchReached ==
  \E k \in DOMAIN stack : \E i \in ActiveMeetingsOf("u1") :
    LET f == stack[k] IN
      /\ Computed(f) /\ ValidWindow(f)
      /\ "u1" \in Range(f.participants)
      /\ f.startTime = meetings[i].endTime \/ f.endTime = meetings[i].startTime
      /\ ~Listed(f, "u1", i)

\* C3: a participant is busy if one of their overlapping meetings has
\* priority high or urgent, else tentative if any meeting overlaps, else
\* available.
StatusFromPriorities ==
  \A k \in DOMAIN stack :
    LET f == stack[k] IN
      (Computed(f) /\ ValidWindow(f)) =>
        \A u \in DOMAIN f.report.participants :
          LET over == {i \in ActiveMeetingsOf(u) : Overlaps(i, f)}
          IN f.report.participants[u].availability =
               IF \E i \in over : meetings[i].priority \in {"high", "urgent"}
               THEN "busy"
               ELSE IF over # {} THEN "tentative" ELSE "available"

\* C4: canSchedule is true exactly when no participant of the result is
\* busy, in every computed report and in the one the route receives;
\* tentative participants do not block.
CanScheduleIffNoBusy ==
  /\ \A k \in DOMAIN stack :
       Computed(stack[k]) =>
         (stack[k].report.canSchedule <=>
            \A u \in DOMAIN stack[k].report.participants :
              stack[k].report.participants[u].availability # "busy")
  /\ (result.state = "returned" /\ result.success) =>
       (result.report.canSchedule <=>
          \A u \in DOMAIN result.report.participants :
            result.report.participants[u].availability # "busy")

\* a returned result with a tentative participant and canSchedule true
TentativeToleratedReached ==
  /\ result.state = "returned"
  /\ result.success
  /\ result.report.canSchedule
  /\ \E u \in DOMAIN result.report.participants :
       result.report.participants[u].availability = "tentative"

\* C5: the result holds exactly one entry for each requested participant id.
OneEntryPerParticipant ==
  \A k \in DOMAIN stack :
    Computed(stack[k]) =>
      /\ DOMAIN stack[k].report.participants = Range(stack[k].participants)
      /\ \A u \in DOMAIN stack[k].report.participants :
           stack[k].report.participants[u].userId = u

\* C6: a call whose window has start >= end fails at once: it computes no
\* availability data and does not go on to generate suggestions.
InvalidWindowRejected ==
  \A k \in DOMAIN stack :
    ~ValidWindow(stack[k]) => ~Computed(stack[k])

\* canSchedule of checkAvailability(p, w[1], w[2]) against the collection ms
CanScheduleFor(ms, p, w) == AvailabilityReport(ms, p, w[1], w[2]).canSchedule

\* the step stores one more meeting, of priority high, that overlaps w and
\* has a requested participant
AddsHighConflict(p, w) ==
  /\ Len(meetings') = Len(meetings) + 1
  /\ SubSeq(meetings', 1, Len(meetings)) = meetings
  /\ LET m == meetings'[Len(meetings')] IN
       /\ m.priority = "high"
       /\ m.startTime < w[2] /\ w[1] < m.endTime
       /\ m.participants \cap Range(p) # {}

\* C7: storing one more high-priority meeting that overlaps the window for a
\* requested participant leaves canSchedule false: it never turns true.
HighConflictBlocks ==
  [][\A p \in ParticipantLists : \A w \in Windows :
       (w[1] < w[2] /\ AddsHighConflict(p, w)) => ~CanScheduleFor(meetings', p, w)]_vars

\* a second meeting, of priority high, was stored and turned canSchedule
\* for u1 over [T(1), T(3)) from true to false
HighConflictAdded ==
  /\ Len(meetings) = 2
  /\ meetings[2].priority = "high"
  /\ meetings[2].status = "scheduled"
  /\ CanScheduleFor(SubSeq(meetings, 1, 1), <<"u1">>, <<T(1), T(3)>>)
  /\ ~CanScheduleFor(meetings, <<"u1">>, <<T(1), T(3)>>)

AsInterval(f) == [startTime |-> f.startTime, endTime |-> f.endTime]

\* C8: the overlap test is symmetric: a stored meeting is matched against a
\* window exactly when the window, taken as the meeting, is matched against
\* the meeting, taken as the window.
OverlapSymmetric ==
  \A k \in DOMAIN stack : \A i \in DOMAIN meetings :
    ValidWindow(stack[k]) =>
      (TimeClauses(meetings[i], stack[k].startTime, stack[k].endTime)
         <=> TimeClauses(AsInterval(stack[k]), meetings[i].startTime,
                         meetings[i].endTime))

\* a computed request whose window overlaps a stored meeting only in part
PartialOverlapReached ==
  \E k \in DOMAIN stack : \E i \in DOMAIN meetings :
    /\ Computed(stack[k])
    /\ stack[k].startTime < meetings[i].startTime
    /\ meetings[i].startTime < stack[k].endTime
    /\ stack[k].endTime < meetings[i].endTime
    /\ TimeClauses(meetings[i], stack[k].startTime, stack[k].endTime)

\* the days of the horizon that generateOptimalTimeSlots keeps
KeptDays ==
  {k \in 0..(TimeHorizonOf(optimal.preferences) - 1) :
     optimal.preferences.includeWeekends \/ ~IsWeekend(optimal.startDate + k * Day)}

\* the returned candidates that start on day k of the horizon
SlotsOfDay(k) ==
  {j \in DOMAIN optimal.slots :
     StartOfDay(optimal.slots[j].startTime) = StartOfDay(optimal.startDate + k * Day)}

\* the half-hour marks from workingHours.start up to and including
\* workingHours.end - ceil(duration / 60), as <<hour, minute>>
ExpectedStarts ==
  LET wh == WorkingHoursOf(optimal.preferences)
      hours == CeilHours(optimal.duration)
  IN {<<h, m>> \in (0..23) \X {0, 30} :
        /\ h * 60 + m >= wh.start * 60
        /\ h * 60 + m <= (wh.end - hours) * 60}

CandidatesWithinBounds ==
  optimal.state = "returned" =>
    \A j \in DOMAIN optimal.slots :
      LET slot == optimal.slots[j]
          wh == WorkingHoursOf(optimal.preferences)
      IN /\ slot.startTime >= optimal.startDate
         /\ slot.endTime < optimal.startDate + TimeHorizonOf(optimal.preferences) * Day
         /\ HourOf(slot.startTime) >= wh.start
         /\ slot.endTime <= StartOfDay(slot.startTime) + wh.end * Hour

\* C11: a day of the horizon yields no candidate exactly when
\* includeWeekends is false, the day is a Saturday or Sunday and the day is
\* not listed in preferences.preferredDays (a duration that fits the
\* working hours being requested).
SkippedIffUnlistedWeekend ==
  (optimal.state = "returned" /\ ExpectedStarts # {}) =>
    \A k \in 0..(TimeHorizonOf(optimal.preferences) - 1) :
      LET day == optimal.startDate + k * Day
      IN (SlotsOfDay(k) = {}) <=>
           /\ ~optimal.preferences.includeWeekends
           /\ IsWeekend(day)
           /\ DayOfWeek(day) \notin optimal.preferences.preferredDays

\* C12: no candidate slot that generateTimeSlotSuggestions hands to
\* checkAvailability ends at or before its start, whatever the duration
\* of the requested window.
CandidateEndsAfterStart ==
  \A k \in 2..Len(stack) : stack[k].endTime > stack[k].startTime

\* the bonus for the hour of day
HourBonus(hour) ==
  IF hour \in {10, 11} THEN 25
  ELSE IF hour \in {14, 15} THEN 20
  ELSE IF hour \in {9, 16} THEN 10
  ELSE IF hour < 9 \/ hour > 16 THEN -40
  ELSE 0

\* the bonus for the day of the week, 0 being Sunday
DayBonus(dayOfWeek) ==
  IF dayOfWeek \in {2, 3, 4} THEN 15
  ELSE IF dayOfWeek \in {1, 5} THEN 8
  ELSE -50

\* the adjustment for the preference flags
PrefAdjust(hour, dayOfWeek, preferences) ==
  (IF preferences.preferMorning /\ hour < 12 THEN 15 ELSE 0)
    + (IF preferences.preferAfternoon /\ hour >= 12 THEN 15 ELSE 0)
    - (IF preferences.avoidMondays /\ dayOfWeek = 1 THEN 25 ELSE 0)
    - (IF preferences.avoidFridays /\ dayOfWeek = 5 THEN 25 ELSE 0)

TuesdayHalfPastTen == 2 * Day + 10 * Hour + 30 * Minute

\* C13: calculateAdvancedTimeSlotScore returns max(0, 100 + hourBonus +
\* dayBonus - 20 * c + prefAdjust), without an upper clamp: Tuesday 10:30
\* with no conflicts and no preferences scores 140.
AdvancedScoreIsFormula ==
  (scored.fn = "advanced" /\ scored.state = "returned") =>
    LET hour == HourOf(scored.startTime)
        dayOfWeek == DayOfWeek(scored.startTime)
        sum == 100 + HourBonus(hour) + DayBonus(dayOfWeek) - 20 * scored.conflicts
                 + PrefAdjust(hour, dayOfWeek, scored.preferences)
    IN /\ scored.value = (IF sum > 0 THEN sum ELSE 0)
       /\ (/\ scored.startTime = TuesdayHalfPastTen
           /\ scored.conflicts = 0
           /\ scored.preferences = NoPreferences) => scored.value = 140

\* Tuesday 10:30 without conflicts or preferences has been scored
TuesdayMorningScored ==
  /\ scored.fn = "advanced"
  /\ scored.state = "returned"
  /\ scored.startTime = TuesdayHalfPastTen
  /\ scored.conflicts = 0
  /\ scored.preferences = NoPreferences
  /\ scored.value = 140

\* C14: every score a slot scorer returns is >= 0.
ScoreNeverNegative ==
  scored.state = "returned" => scored.value >= 0

\* a scorer met a negative sum and returned 0
ClampedScoreReached ==
  /\ scored.fn = "advanced"
  /\ scored.state = "returned"
  /\ AdvancedScoreSum(scored.startTime, scored.conflicts, scored.preferences) < 0
  /\ scored.value = 0

\* the busy intervals of the requested participants that overlap the
\* returned candidate j, as <<participant, meeting>>
BusyOverlapping(j) ==
  {um \in Range(optimal.participants) \X DOMAIN meetings :
     /\ um[2] \in ActiveMeetingsOf(um[1])
     /\ Overlaps(um[2], optimal.slots[j])}

\* C15: a candidate is labelled conflictLevel 'none' only if no busy
\* interval of a requested participant overlaps it, the conflict value of
\* a candidate being the number of such intervals.
NoneMeansNoOverlap ==
  optimal.state = "returned" =>
    \A j \in DOMAIN optimal.slots :
      optimal.slots[j].conflictLevel = "none" => BusyOverlapping(j) = {}

\* C16: the candidates are ordered by score descending, candidates of
\* equal score by start time ascending, and sorting the returned list
\* again leaves it as it is.
RankedByScoreThenStart ==
  optimal.state = "returned" =>
    /\ \A i, j \in DOMAIN optimal.slots :
         i < j =>
           \/ optimal.slots[i].score > optimal.slots[j].score
           \/ /\ optimal.slots[i].score = optimal.slots[j].score
              /\ optimal.slots[i].startTime < optimal.slots[j].startTime
    /\ SortByScore(optimal.slots) = optimal.slots

\* two candidates of equal score on different days have been ranked
TieAcrossDaysReached ==
  /\ optimal.state = "returned"
  /\ \E i, j \in DOMAIN optimal.slots :
       /\ i < j
       /\ optimal.slots[i].score = optimal.slots[j].score
       /\ StartOfDay(optimal.slots[i].startTime) < StartOfDay(optimal.slots[j].startTime)
       /\ \E k \in DOMAIN optimal.slots :
            optimal.slots[k].score < optimal.slots[i].score

ConfidenceWithinRange ==
  optimal.state = "returned" =>
    /\ optimal.confidence \in 0..100
    /\ optimal.slots = <<>> => optimal.confidence = 0

\* some requested participant has a stored meeting, admitted by the
\* status filter, that overlaps the requested window
RequestHasConflict ==
  \E u \in Range(resolution.meetingData.participants) :
    \E i \in ActiveMeetingsOf(u) : Overlaps(i, resolution.meetingData)

\* C19: when the requested window has a conflict for some participant and
\* the data source answers, the returned strategy list contains
\* 'reschedule' with effort low, impact high and probability 0.9.
RescheduleWheneverConflict ==
  (resolution.state = "returned" /\ resolution.success /\ RequestHasConflict) =>
    \E k \in DOMAIN resolution.resolutionStrategies :
      resolution.resolutionStrategies[k] = Reschedule

\* C20: a returned strategy list contains 'reduce_participants' (effort
\* medium, impact medium, probability 0.7) if and only if the request
\* names more than three participants.
ReduceIffMoreThanThree ==
  (resolution.state = "returned" /\ resolution.hasConflicts) =>
    ((\E k \in DOMAIN resolution.resolutionStrategies :
        resolution.resolutionStrategies[k] = ReduceParticipants)
     <=> Len(resolution.meetingData.participants) > 3)

\* the returned strategy list holds strategy
Proposed(strategy) ==
  \E k \in DOMAIN resolution.resolutionStrategies :
    resolution.resolutionStrategies[k] = strategy

\* C21: a returned strategy list contains 'split_meeting' (effort high,
\* impact medium, probability 0.6) if and only if the requested meeting
\* lasts more than 60 minutes, endTime - startTime > 60 min.
SplitIffLongerThanHour ==
  (resolution.state = "returned" /\ resolution.hasConflicts) =>
    (Proposed(SplitMeeting)
       <=> DiffMinutes(resolution.meetingData.endTime,
                       resolution.meetingData.startTime) > 60)

\* C22: a returned strategy list contains 'override_conflicts' if and only
\* if some meeting of a requested participant that overlaps the requested
\* window is flexible, a meeting of low priority being flexible.
OverrideIffFlexibleConflict ==
  (resolution.state = "returned" /\ resolution.hasConflicts) =>
    (Proposed(OverrideConflicts)
       <=> \E u \in Range(resolution.meetingData.participants) :
             \E i \in ActiveMeetingsOf(u) :
               /\ Overlaps(i, resolution.meetingData)
               /\ meetings[i].priority = "low")

\* impactWeight(impact) * probability, probability in tenths
PriorityScore(strategy) ==
  (CASE strategy.impact = "high" -> 3
     [] strategy.impact = "medium" -> 2
     [] OTHER -> 1) * strategy.probability

\* C23: the returned resolutionStrategies are ordered by impactWeight *
\* probability descending; all four strategies come as reschedule,
\* override_conflicts, reduce_participants, split_meeting; the first is
\* the 'primary' recommendation and the next two the 'alternative' ones.
StrategiesRankedByPriority ==
  (resolution.state = "returned" /\ resolution.hasConflicts) =>
    LET list == resolution.resolutionStrategies
        recs == resolution.recommendations
    IN /\ \A i, j \in DOMAIN list :
            i < j => PriorityScore(list[i]) >= PriorityScore(list[j])
       /\ Len(list) = 4 =>
            list = <<Reschedule, OverrideConflicts, ReduceParticipants, SplitMeeting>>
       /\ Len(recs) = (IF Len(list) < 3 THEN Len(list) ELSE 3)
       /\ \A k \in DOMAIN recs :
            /\ recs[k].strategy = list[k].type
            /\ recs[k].priority = (IF k = 1 THEN "primary" ELSE "alternative")

\* the four strategies, generated in another order, have been ranked
FourStrategiesRanked ==
  /\ resolution.state = "returned"
  /\ resolution.resolutionStrategies =
       <<Reschedule, OverrideConflicts, ReduceParticipants, SplitMeeting>>
  /\ Len(resolution.recommendations) = 3
  /\ resolution.recommendations[3].strategy = "reduce_participants"

\* C30: POST /availability-check answers success: true only when
\* checkAvailability itself succeeded, and then with the availability data.
SuccessOnlyWithData ==
  (result.state = "returned" /\ result.response.success) =>
    (result.success /\ result.response.hasData)

----------------------------------------------------------------------------
(* The reminder job                                                        *)

\* entry i of stored meeting m is configured and has a recipient
ReminderEntry(m, i) ==
  /\ m \in DOMAIN meetings
  /\ i \in DOMAIN meetings[m].reminders
  /\ meetings[m].accepted # {}

\* run r began inside the period in which entry i of meeting m is due
StartedWhenDue(r, m, i) ==
  /\ meetings[m].status = "scheduled"
  /\ runs[r].start >= meetings[m].startTime - meetings[m].reminders[i].minutesBefore * Minute
  /\ runs[r].start <= meetings[m].startTime

\* C24: a reminder with minutesBefore = m on a scheduled meeting is
\* delivered no later than one tick after startTime - m: once a run of
\* checkAndSendReminders that began at or after startTime - m (and not after
\* startTime) has finished, the entry has been delivered.
ReminderSentWhenDue ==
  \A r \in 1..MaxRuns : \A m \in 1..MaxMeetings : \A i \in 1..MaxReminders :
    (runs[r].pc = "done" /\ ReminderEntry(m, i) /\ StartedWhenDue(r, m, i))
      => deliveries[<<m, i>>] >= 1

\* C25: each reminder entry of a meeting is delivered at most once,
\* whatever runs of checkAndSendReminders overlap.
ReminderSentAtMostOnce ==
  \A m \in 1..MaxMeetings : \A i \in 1..MaxReminders : deliveries[<<m, i>>] <= 1

----------------------------------------------------------------------------
(* The meeting routes                                                      *)

\* C26 as stated: once a meeting is cancelled it never again appears as a
\* conflict: after every later step, neither findConflicts nor the $match
\* stage of checkAvailability, asked for the meeting's own interval, returns it.
CancelledStaysOut ==
  [][\A i \in DOMAIN meetings :
       meetings[i].status = "cancelled" =>
         /\ i \notin FindConflicts(meetings', meetings'[i].organizer,
                                   meetings'[i].startTime, meetings'[i].endTime)
         /\ i \notin Matched(meetings', <<meetings'[i].organizer>>,
                             meetings'[i].startTime, meetings'[i].endTime)]_vars

\* C26: a meeting whose status is 'cancelled', as DELETE /api/meetings/:id
\* leaves it, is no conflict: no availability report lists it for any
\* participant and no findConflicts result contains it.
CancelledNeverConflicts ==
  /\ \A k \in DOMAIN stack :
       Computed(stack[k]) =>
         \A u \in Range(stack[k].participants) : \A i \in DOMAIN meetings :
           meetings[i].status = "cancelled" => ~Listed(stack[k], u, i)
  /\ \A c \in reply.conflicts : c.status # "cancelled"

\* a report computed for u1 and u2 while a cancelled meeting of u1 overlaps
\* the window, u1 being reported available
CancelledOverlapIgnored ==
  \E k \in DOMAIN stack : \E i \in DOMAIN meetings :
    LET f == stack[k] IN
      /\ Computed(f) /\ ValidWindow(f)
      /\ meetings[i].status = "cancelled"
      /\ meetings[i].organizer = "u1"
      /\ Overlaps(i, f)
      /\ f.report.participants["u1"].availability = "available"

\* C27: a stored meeting whose status is 'in-progress' and which overlaps
\* the requested window is listed as a conflict of its requested
\* participants, as a 'scheduled' meeting is.
InProgressCounted ==
  \A k \in DOMAIN stack :
    LET f == stack[k] IN
      (Computed(f) /\ ValidWindow(f)) =>
        \A u \in Range(f.participants) : \A i \in DOMAIN meetings :
          (meetings[i].status = "in-progress" /\ u \in meetings[i].participants
             /\ Overlaps(i, f))
            => Listed(f, u, i)

\* C28: findConflicts(userId, startTime, endTime) returns only meetings of
\* which userId is the organizer or a participant.
ConflictsInvolveUser ==
  \A c \in reply.conflicts : reply.userId \in c.participants \cup {c.organizer}

\* C29: every persisted meeting has endTime > startTime and its organizer
\* among its participants, and a save of a document with
\* endTime <= startTime fails and leaves the collection unchanged.
PersistedMeetingsValid ==
  /\ [](\A i \in DOMAIN meetings :
          /\ meetings[i].endTime > meetings[i].startTime
          /\ meetings[i].organizer \in meetings[i].participants)
  /\ [][reply'.endTime <= reply'.startTime
          => (~reply'.ok /\ meetings' = meetings)]_vars

\* a PUT or POST with endTime <= startTime was refused while a meeting is
\* stored
RejectedSaveReached ==
  /\ reply.userId # "none"
  /\ ~reply.ok
  /\ reply.endTime <= reply.startTime
  /\ meetings # <<>>

====
